---- MODULE Spec2Model ----
(***************************************************************************)
(* Buildable AI backend: the unified execution engine (BuildableAI.execute *)
(* with per-candidate retry and fallback) and the generation pipeline      *)
(* (GenerationPipeline.run) with the session status it writes.             *)
(*                                                                         *)
(* SpecExec  : one execute call against nondeterministic provider answers. *)
(* SpecPipe  : one generation run, interleaved with the cancel endpoint.   *)
(* SpecSort  : the same run over plans with dependencies and priorities.   *)
(* SpecCredits : a generation or refinement run and its credit deduction.  *)
(* SpecApi   : concurrent start and refine requests on one workspace.      *)
(* SpecEstimate : pairs of estimateCredits calls.                          *)
(* SpecStream : one stream call against nondeterministic provider streams. *)
(* SpecRate  : requests of two callers through the rate limiter over time. *)
(* SpecGate  : one start request through creditsMiddleware and its handler.*)
(***************************************************************************)
EXTENDS Integers, Sequences, FiniteSets, TLC

VARIABLES
    \* ---- execution engine (buildable-ai.ts) ----
    keys,          \* providers whose API key is set in env
    retryCount,    \* BuildableAI.retryCount
    task,          \* request.task of the execute call in progress
    epc,           \* position inside execute
    attempt,       \* loop counter of executeWithProvider
    lastError,     \* lastError of executeWithProvider
    calls,         \* log of provider calls made by this execute call
    result,        \* the response returned by execute
    thrown,        \* the error execute rejected with
    \* ---- generation pipeline (pipeline.ts, api/generate.ts) ----
    session,       \* the generation_sessions row
    statusLog,     \* statuses written to the row, consecutive repeats collapsed
    cancels,       \* number of cancel requests served
    wsStatus,      \* workspace.status
    ppc,           \* position inside GenerationPipeline.run
    maxValidationRetries,
    plan,          \* plan.files returned by the architect
    sortedFiles,   \* sortFilesByDependency(plan.files)
    fileIdx,       \* index of the Phase 3 loop in sortedFiles
    attempted,     \* file specs the Phase 3 loop has started on, in order
    generatedFiles,\* the run's GeneratedFile[]
    vIdx,          \* index of the Phase 4 loop in generatedFiles
    validationAttempts,
    isValid,
    pendingIssues, \* validation.issues handed to validator.fix
    vStats,        \* per generated file: what the validator was asked and answered
    store,         \* workspace file store: path -> content
    fatal,         \* the run entered the catch block of run()
    outcome,       \* per attempted file spec: it reached generatedFiles.push
    totalTokens,   \* totalTokens of run() / refine()
    suggestions,   \* suggestions of run()
    deductCalls,   \* calls of deductCredits made by the request handler
    analysis,      \* the parsed analysis of RefinementPipeline.refine
    suggestError,  \* the catch block of Phase 5 has run
    lostTokens,    \* tokens of answers that were returned and never added to totalTokens
    \* ---- start and refine requests (api/generate.ts) ----
    reqKind,       \* per request: "start" or "refine" ("none" before it arrives)
    reqPc,         \* per request: the await its handler is at, or its answer
    sessionsOf,    \* requests whose db.createSession has resolved
    activeRuns,    \* requests whose pipeline run is in progress
    \* ---- credit estimation (middleware/credits.ts) ----
    estArgs,       \* the two argument pairs estimateCredits is called with
    estOut,        \* what the two calls returned
    \* ---- streaming (buildable-ai.ts) ----
    sTask,         \* request.task of the stream call in progress
    spc,           \* position inside stream
    sCand,         \* the provider and model stream has chosen
    sOpens,        \* candidates a provider stream was requested from, in order
    chunks,        \* the done flags of the chunks yielded so far
    sThrown,       \* the error the generator threw
    \* ---- rate limiter (middleware/credits.ts) ----
    requestCounts, \* the requestCounts map: caller key -> entry
    now,           \* Date.now()
    ticks,         \* number of clock advances so far
    rlAnswer,      \* the last request served: its key and what it was answered
    windowH,       \* per key: start of its current window and the requests admitted in it
    \* ---- credits pre-flight (middleware/credits.ts, api/generate.ts) ----
    gpc,           \* position of the request: middleware, handler, or its answer
    gUser,         \* the request carries a userId
    gCredits,      \* the user's credit record, or none
    gPrompt,       \* length of body.prompt
    gSessions      \* sessions created by the handler

execVars == <<keys, retryCount, task, epc, attempt, lastError, calls, result, thrown>>
pipeVars == <<session, statusLog, cancels, wsStatus, ppc, maxValidationRetries, plan,
              sortedFiles, fileIdx, attempted, generatedFiles, vIdx, validationAttempts,
              isValid, pendingIssues, vStats, store, fatal, outcome, totalTokens,
              suggestions, deductCalls, analysis, suggestError, lostTokens>>
apiVars == <<reqKind, reqPc, sessionsOf, activeRuns>>
estVars == <<estArgs, estOut>>
streamVars == <<sTask, spc, sCand, sOpens, chunks, sThrown>>
rateVars == <<requestCounts, now, ticks, rlAnswer, windowH>>
gateVars == <<gpc, gUser, gCredits, gPrompt, gSessions>>
auxVars == <<streamVars, rateVars, gateVars>>
vars == <<execVars, pipeVars, apiVars, estVars, auxVars>>

(***************************************************************************)
(* Bounds                                                                  *)
(***************************************************************************)
MaxRetryCount == 2
MaxCancels == 1
MaxTokens == 1
MaxCreditRetries == 1
MaxCreditFiles == 1

(***************************************************************************)
(* models.ts: providers, task types, routing table                         *)
(***************************************************************************)
AIProvider == {"grok", "openai", "gemini"}

TaskType == {"planning", "coding", "debugging", "reasoning", "multimodal",
             "validation", "refinement"}

Cand(p, m) == [provider |-> p, model |-> m]

ModelRouting(t) ==
    CASE t = "planning"   -> [primary  |-> Cand("gemini", "gemini-2.5-pro"),
                              fallback |-> Cand("openai", "gpt-5-mini")]
      [] t = "coding"     -> [primary  |-> Cand("grok", "grok-code-fast-1"),
                              fallback |-> Cand("openai", "gpt-5")]
      [] t = "debugging"  -> [primary  |-> Cand("grok", "grok-code-fast-1"),
                              fallback |-> Cand("openai", "gpt-5-mini")]
      [] t = "reasoning"  -> [primary  |-> Cand("openai", "gpt-5.2"),
                              fallback |-> Cand("gemini", "gemini-2.5-pro")]
      [] t = "multimodal" -> [primary  |-> Cand("gemini", "gemini-3-pro-preview"),
                              fallback |-> Cand("grok", "grok-vision-beta")]
      [] t = "validation" -> [primary  |-> Cand("grok", "grok-4.1-fast"),
                              fallback |-> Cand("openai", "gpt-5-nano")]
      [] t = "refinement" -> [primary  |-> Cand("openai", "gpt-5"),
                              fallback |-> Cand("grok", "grok-code-fast-1")]

\* isProviderAvailable: the provider's API key is set
isProviderAvailable(p) == p \in keys

\* loadEnv: the process exits unless at least one provider key is set
LoadEnvAccepts(ks) == ks # {}

\* The candidates execute will go through, in order: the primary when it has
\* a key, then the fallback when it has a key.
Candidates(t) ==
    SelectSeq(<<ModelRouting(t).primary, ModelRouting(t).fallback>>,
              LAMBDA c : isProviderAvailable(c.provider))

(***************************************************************************)
(* buildable-ai.ts: errors and their classification                        *)
(***************************************************************************)
\* What a provider call can throw: an Error (or not) whose lower-cased
\* message contains the given text.
ErrorTexts == {"rate limit", "429", "too many requests", "unauthorized"}
ProviderErrors == [isError : BOOLEAN, text : ErrorTexts]

NoError == [kind |-> "none"]
\* the error object thrown by provider call number n of this execute call
CallError(n, e) == [kind |-> "call", call |-> n, err |-> e]
NoProvidersError == [kind |-> "noproviders"]

isRateLimitErrorAlways(e) == TRUE
isRateLimitError(e) ==
    /\ e.isError
    /\ e.text \in {"rate limit", "429", "too many requests"}

\* the loop condition of executeWithProvider: attempt <= this.retryCount
RetryLoopGivesUpEarly(a, rc) == a < rc
RetryLoopOneTooMany(a, rc) == a <= rc + 1
RetryLoopContinues(a, rc) == a <= rc

UnknownExecutionError == [kind |-> "unknown"]

(***************************************************************************)
(* buildable-ai.ts: BuildableAI.execute / executeWithProvider              *)
(***************************************************************************)
ExecIdle ==
    /\ task = "none" /\ epc = "idle" /\ attempt = 0 /\ lastError = NoError
    /\ calls = <<>> /\ result = "none" /\ thrown = NoError

InitExec ==
    /\ keys \in {ks \in SUBSET AIProvider : LoadEnvAccepts(ks)}
    /\ retryCount \in 0..MaxRetryCount
    /\ ExecIdle

\* the candidate the engine is on
CurrentCandidate ==
    IF epc = "primary" THEN ModelRouting(task).primary ELSE ModelRouting(task).fallback

\* execute, after the primary was skipped or has failed: the fallback block,
\* then the final throw
EnterFallback(t) ==
    IF isProviderAvailable(ModelRouting(t).fallback.provider)
    THEN /\ epc' = "fallback"
         /\ attempt' = 0
         /\ lastError' = NoError
         /\ thrown' = thrown
    ELSE /\ epc' = "thrown"
         /\ thrown' = NoProvidersError
         /\ UNCHANGED <<attempt, lastError>>

\* executeWithProvider rejected with err: the primary's catch block logs and
\* falls through, the fallback's catch block rethrows
CandidateFailed(err) ==
    IF epc = "primary"
    THEN EnterFallback(task)
    ELSE /\ epc' = "thrown"
         /\ thrown' = err
         /\ UNCHANGED <<attempt, lastError>>

\* execute is called with a request for task t
ExecuteStart(t) ==
    /\ epc = "idle"
    /\ task' = t
    /\ IF isProviderAvailable(ModelRouting(t).primary.provider)
       THEN /\ epc' = "primary"
            /\ attempt' = 0
            /\ lastError' = NoError
            /\ thrown' = thrown
       ELSE EnterFallback(t)
    /\ UNCHANGED <<pipeVars, apiVars, estVars, auxVars, keys, retryCount, calls, result>>

\* one iteration of the retry loop whose provider call resolves
CallSucceeds ==
    /\ epc \in {"primary", "fallback"}
    /\ RetryLoopContinues(attempt, retryCount)
    /\ calls' = Append(calls, [cand |-> CurrentCandidate, ok |-> TRUE, err |-> NoError])
    /\ result' = CurrentCandidate
    /\ epc' = "returned"
    /\ UNCHANGED <<pipeVars, apiVars, estVars, auxVars, keys, retryCount, task, attempt, lastError, thrown>>

\* one iteration of the retry loop whose provider call rejects with e
CallThrows(e) ==
    /\ epc \in {"primary", "fallback"}
    /\ RetryLoopContinues(attempt, retryCount)
    /\ LET err == CallError(Len(calls) + 1, e) IN
       /\ calls' = Append(calls, [cand |-> CurrentCandidate, ok |-> FALSE, err |-> err])
       /\ IF isRateLimitError(e)
          THEN \* delay, continue
               /\ attempt' = attempt + 1
               /\ lastError' = err
               /\ UNCHANGED <<epc, thrown>>
          ELSE \* throw error
               CandidateFailed(err)
    /\ UNCHANGED <<pipeVars, apiVars, estVars, auxVars, keys, retryCount, task, result>>

\* the retry loop ends without a return: throw lastError || new Error(...)
RetriesExhausted ==
    /\ epc \in {"primary", "fallback"}
    /\ ~RetryLoopContinues(attempt, retryCount)
    /\ CandidateFailed(IF lastError # NoError THEN lastError ELSE UnknownExecutionError)
    /\ UNCHANGED <<pipeVars, apiVars, estVars, auxVars, keys, retryCount, task, calls, result>>

NextExec ==
    \/ \E t \in TaskType : ExecuteStart(t)
    \/ CallSucceeds
    \/ \E e \in ProviderErrors : CallThrows(e)
    \/ RetriesExhausted

(***************************************************************************)
(* pipeline.ts: session row and status writes                              *)
(***************************************************************************)
NoSession == [status |-> "none", files_planned |-> 0, files_generated |-> 0,
              error_message |-> "", tokens_used |-> 0, completed_at |-> FALSE]

\* db.createSession: a fresh row, status pending
CreateSession == [NoSession EXCEPT !.status = "pending"]

\* db.updateSession: the given columns are overwritten, the others kept
UpdateSession(s, patch) ==
    [f \in DOMAIN s |-> IF f \in DOMAIN patch THEN patch[f] ELSE s[f]]

TerminalStatus(st) == st = "completed" \/ st = "failed"

\* updateSessionStatus(sessionId, status, data)
updateSessionStatus(s, st, data) ==
    UpdateSession(s, [f \in DOMAIN data \cup {"status"} \cup
                            (IF TerminalStatus(st) THEN {"completed_at"} ELSE {}) |->
                        IF f = "status" THEN st
                        ELSE IF f = "completed_at" /\ TerminalStatus(st) THEN TRUE
                        ELSE data[f]])

NoData == [x \in {} |-> 0]

\* history of the statuses written, consecutive repeats collapsed
Logged(st) ==
    IF statusLog # <<>> /\ statusLog[Len(statusLog)] = st
    THEN statusLog
    ELSE Append(statusLog, st)

\* the status the Phase 3 loop passes with its progress update
ProgressStatusStale == "scaffolding"
ProgressStatus == "generating"

(***************************************************************************)
(* pipeline.ts: plans and sortFilesByDependency                            *)
(***************************************************************************)
PathSeq == <<"a.ts", "b.ts", "c.ts", "d.ts", "e.ts">>
Paths == {PathSeq[i] : i \in 1..Len(PathSeq)}
IssueLists == {<<>>, <<"i1">>}

FileSpec(path, ndeps, hasPriority, priority) ==
    [path |-> path, ndeps |-> ndeps, hasPriority |-> hasPriority, priority |-> priority]

\* the comparator handed to Array.prototype.sort
Compare(a, b) ==
    IF a.hasPriority /\ b.hasPriority
    THEN a.priority - b.priority
    ELSE a.ndeps - b.ndeps

Perms(n) == {f \in [1..n -> 1..n] : \A i, j \in 1..n : i # j => f[i] # f[j]}

\* Array.prototype.sort is stable; a permutation is a sorted order when no
\* later element compares below an earlier one and ties keep their order
IsSortedOrder(files, p) ==
    \A i, j \in 1..Len(files) :
        i < j => \/ Compare(files[p[i]], files[p[j]]) < 0
                 \/ Compare(files[p[i]], files[p[j]]) = 0 /\ p[i] < p[j]

\* ECMAScript: the comparator is consistent on the elements
ConsistentComparator(files) ==
    LET n == Len(files)
        c(i, j) == Compare(files[i], files[j])
    IN  \A i, j, k \in 1..n :
            /\ (c(i, j) < 0) = (c(j, i) > 0)
            /\ (c(i, j) = 0 /\ c(j, k) = 0) => c(i, k) = 0
            /\ (c(i, j) < 0 /\ c(j, k) < 0) => c(i, k) < 0
            /\ (c(i, j) < 0 /\ c(j, k) = 0) => c(i, k) < 0
            /\ (c(i, j) = 0 /\ c(j, k) < 0) => c(i, k) < 0

\* [...files].sort(comparator): the stable sorted order when the comparator
\* is consistent, an implementation-defined order otherwise
sortFilesByDependency(files) ==
    LET n == Len(files)
        orders == IF ConsistentComparator(files)
                  THEN {p \in Perms(n) : IsSortedOrder(files, p)}
                  ELSE Perms(n)
    IN  {[i \in 1..n |-> files[p[i]]] : p \in orders}

(***************************************************************************)
(* pipeline.ts: GenerationPipeline.run, api/generate.ts: start and cancel  *)
(***************************************************************************)
NoAnalysis == [filesToModify |-> <<>>, newFiles |-> <<>>]

PipeStart(files) ==
    /\ session = NoSession /\ statusLog = <<>> /\ cancels = 0 /\ wsStatus = "ready"
    /\ ppc = "none" /\ maxValidationRetries = 3 /\ plan = <<>> /\ sortedFiles = <<>>
    /\ fileIdx = 0 /\ attempted = <<>> /\ generatedFiles = <<>> /\ vIdx = 0
    /\ validationAttempts = 0 /\ isValid = FALSE /\ pendingIssues = <<>>
    /\ vStats = <<>> /\ store = files /\ fatal = FALSE
    /\ outcome = <<>> /\ totalTokens = 0 /\ suggestions = <<>> /\ deductCalls = 0
    /\ analysis = NoAnalysis /\ suggestError = FALSE /\ lostTokens = 0

\* an empty workspace
PipeIdle == PipeStart([p \in Paths |-> 0])

\* usage.totalTokens reported with one provider answer
TokenUsage == 0..MaxTokens

\* zod: maxValidationRetries is a number in 0..5, 3 when absent
MaxValidationRetriesLimit == 5
ValidationRetryOptions == 0..MaxValidationRetriesLimit

\* a status write by the pipeline
WriteStatus(st, data) ==
    /\ session' = updateSessionStatus(session, st, data)
    /\ statusLog' = Logged(st)

\* an exception reaches the catch block of run()
Throw ==
    /\ ppc' = "catch"
    /\ fatal' = TRUE

\* POST /:workspaceId: the session is created, the workspace marked
\* generating and the pipeline started in the background
StartGeneration(retries) ==
    /\ ppc = "none"
    /\ wsStatus # "generating"
    /\ session' = CreateSession
    /\ statusLog' = <<"pending">>
    /\ wsStatus' = "generating"
    /\ maxValidationRetries' = retries
    /\ ppc' = "p1_status"
    /\ UNCHANGED <<execVars, apiVars, estVars, auxVars, lostTokens,
                   analysis, suggestError, outcome, totalTokens, suggestions, deductCalls, cancels, plan, sortedFiles, fileIdx, attempted, generatedFiles, vIdx,
                   validationAttempts, isValid, pendingIssues, vStats, store, fatal>>

\* POST /session/:sessionId/cancel
CancelSession ==
    /\ session.status # "none"
    /\ cancels < MaxCancels
    /\ session' = UpdateSession(session, [status |-> "failed",
                                          error_message |-> "Cancelled by user",
                                          completed_at |-> TRUE])
    /\ statusLog' = Logged("failed")
    /\ cancels' = cancels + 1
    /\ UNCHANGED <<execVars, apiVars, estVars, auxVars, lostTokens,
                   analysis, suggestError, outcome, totalTokens, suggestions, deductCalls, wsStatus, ppc, maxValidationRetries, plan, sortedFiles, fileIdx,
                   attempted, generatedFiles, vIdx, validationAttempts, isValid,
                   pendingIssues, vStats, store, fatal>>

\* Phase 1: status planning
PlanningStatus ==
    /\ ppc = "p1_status"
    /\ WriteStatus("planning", NoData)
    /\ ppc' = "p1_plan"
    /\ UNCHANGED <<execVars, apiVars, estVars, auxVars, lostTokens,
                   analysis, suggestError, outcome, totalTokens, suggestions, deductCalls, cancels, wsStatus, maxValidationRetries, plan, sortedFiles, fileIdx,
                   attempted, generatedFiles, vIdx, validationAttempts, isValid,
                   pendingIssues, vStats, store, fatal>>

\* Phase 1: architect.createPlan returns a plan
PlanCreated(files, tok) ==
    /\ ppc = "p1_plan"
    /\ plan' = files
    /\ ppc' = "p2_status"
    /\ totalTokens' = totalTokens + tok
    /\ UNCHANGED <<execVars, apiVars, estVars, auxVars, lostTokens,
                   analysis, suggestError, outcome, suggestions, deductCalls, session, statusLog, cancels, wsStatus, maxValidationRetries,
                   sortedFiles, fileIdx, attempted, generatedFiles, vIdx,
                   validationAttempts, isValid, pendingIssues, vStats, store, fatal>>

\* Phase 1: execute returns, then JSON.parse or the plan schema rejects the
\* content: createPlan throws and the answer's usage is dropped with it
PlanUnparsable(tok) ==
    /\ ppc = "p1_plan"
    /\ lostTokens' = lostTokens + tok
    /\ Throw
    /\ UNCHANGED <<execVars, apiVars, estVars, auxVars, analysis, suggestError, outcome,
                   totalTokens, suggestions, deductCalls, session, statusLog, cancels,
                   wsStatus, maxValidationRetries, plan, sortedFiles, fileIdx, attempted,
                   generatedFiles, vIdx, validationAttempts, isValid, pendingIssues,
                   vStats, store>>

\* Phase 1: architect.createPlan throws because execute failed
PlanFails ==
    /\ ppc = "p1_plan"
    /\ Throw
    /\ UNCHANGED <<execVars, apiVars, estVars, auxVars, lostTokens,
                   analysis, suggestError, outcome, totalTokens, suggestions, deductCalls, session, statusLog, cancels, wsStatus, maxValidationRetries, plan,
                   sortedFiles, fileIdx, attempted, generatedFiles, vIdx,
                   validationAttempts, isValid, pendingIssues, vStats, store>>

\* Phase 2: status scaffolding with the plan; applyTemplate does nothing
ScaffoldingStatus ==
    /\ ppc = "p2_status"
    /\ WriteStatus("scaffolding", [files_planned |-> Len(plan)])
    /\ ppc' = "p3_status"
    /\ UNCHANGED <<execVars, apiVars, estVars, auxVars, lostTokens,
                   analysis, suggestError, outcome, totalTokens, suggestions, deductCalls, cancels, wsStatus, maxValidationRetries, plan, sortedFiles, fileIdx,
                   attempted, generatedFiles, vIdx, validationAttempts, isValid,
                   pendingIssues, vStats, store, fatal>>

\* Phase 3: status generating, the files are sorted and the loop entered
GeneratingStatus ==
    /\ ppc = "p3_status"
    /\ WriteStatus("generating", NoData)
    /\ sortedFiles' \in sortFilesByDependency(plan)
    /\ fileIdx' = 1
    /\ ppc' = IF Len(plan) = 0 THEN "p4_status" ELSE "p3_file"
    /\ UNCHANGED <<execVars, apiVars, estVars, auxVars, lostTokens,
                   analysis, suggestError, outcome, totalTokens, suggestions, deductCalls, cancels, wsStatus, maxValidationRetries, plan, attempted,
                   generatedFiles, vIdx, validationAttempts, isValid, pendingIssues,
                   vStats, store, fatal>>

\* the Phase 3 loop moves to the next file spec or leaves the loop
NextFileSkipsRest ==
    /\ fileIdx' = Len(sortedFiles) + 1
    /\ ppc' = "p4_status"
NextFile ==
    /\ fileIdx' = fileIdx + 1
    /\ ppc' = IF fileIdx + 1 > Len(sortedFiles) THEN "p4_status" ELSE "p3_file"

NewStats == [nValidate |-> 0, nFix |-> 0, nValid |-> 0, lastValid |-> FALSE,
             lastIssues |-> <<>>]

\* Phase 3, one file: generated, recorded, upserted and pushed
FileGenerated(tok) ==
    /\ ppc = "p3_file"
    /\ LET spec == sortedFiles[fileIdx]
           content == store[spec.path] + 1
       IN  /\ attempted' = Append(attempted, spec)
           /\ store' = [store EXCEPT ![spec.path] = content]
           /\ generatedFiles' = Append(generatedFiles,
                  [path |-> spec.path, content |-> content, validated |-> FALSE,
                   hasErrors |-> FALSE, errors |-> <<>>])
           /\ vStats' = Append(vStats, NewStats)
    /\ ppc' = "p3_progress"
    /\ outcome' = Append(outcome, TRUE)
    /\ totalTokens' = totalTokens + tok
    /\ UNCHANGED <<execVars, apiVars, estVars, auxVars, lostTokens,
                   analysis, suggestError, suggestions, deductCalls, session, statusLog, cancels, wsStatus, maxValidationRetries, plan,
                   sortedFiles, fileIdx, vIdx, validationAttempts, isValid,
                   pendingIssues, fatal>>

\* Phase 3, one file: the progress update after the push
FileProgress ==
    /\ ppc = "p3_progress"
    /\ WriteStatus(ProgressStatus, [files_generated |-> Len(generatedFiles)])
    /\ NextFile
    /\ UNCHANGED <<execVars, apiVars, estVars, auxVars, lostTokens,
                   analysis, suggestError, outcome, totalTokens, suggestions, deductCalls, cancels, wsStatus, maxValidationRetries, plan, sortedFiles, attempted,
                   generatedFiles, vIdx, validationAttempts, isValid, pendingIssues,
                   vStats, store, fatal>>

\* Phase 3, one file: db.getWorkspaceFiles or coder.generateFile throws;
\* caught and logged, the loop continues
FileGenerationFails ==
    /\ ppc = "p3_file"
    /\ attempted' = Append(attempted, sortedFiles[fileIdx])
    /\ NextFile
    /\ outcome' = Append(outcome, FALSE)
    /\ UNCHANGED <<execVars, apiVars, estVars, auxVars, lostTokens,
                   analysis, suggestError, totalTokens, suggestions, deductCalls, session, statusLog, cancels, wsStatus, maxValidationRetries, plan,
                   sortedFiles, generatedFiles, vIdx, validationAttempts, isValid,
                   pendingIssues, vStats, store, fatal>>

\* Phase 3, one file: the file is generated and its tokens counted, then
\* recordFileOperation or upsertFile throws; caught and logged, the loop
\* continues
FilePersistFails(tok) ==
    /\ ppc = "p3_file"
    /\ attempted' = Append(attempted, sortedFiles[fileIdx])
    /\ NextFile
    /\ outcome' = Append(outcome, FALSE)
    /\ totalTokens' = totalTokens + tok
    /\ UNCHANGED <<execVars, apiVars, estVars, auxVars, lostTokens,
                   analysis, suggestError, suggestions, deductCalls, session, statusLog, cancels, wsStatus,
                   maxValidationRetries, plan, sortedFiles, generatedFiles, vIdx,
                   validationAttempts, isValid, pendingIssues, vStats, store, fatal>>

\* the condition of the Phase 4 while loop
ValidateLoopOffByOne(valid, attempts, max) == ~valid /\ attempts <= max
ValidateLoopIgnoresValid(valid, attempts, max) == attempts < max
ValidateLoopContinues(valid, attempts, max) == ~valid /\ attempts < max

\* the Phase 4 for loop reaches generated file i: its while loop is entered
\* or skipped, and after the last file Phase 5 follows
EnterValidateLoop(i) ==
    IF i <= Len(generatedFiles) /\ ValidateLoopContinues(FALSE, 0, maxValidationRetries)
    THEN /\ ppc' = "p4_validate"
         /\ vIdx' = i
         /\ validationAttempts' = 0
         /\ isValid' = FALSE
    ELSE /\ ppc' = "p5_suggest"
         /\ vIdx' = Len(generatedFiles) + 1
         /\ validationAttempts' = 0
         /\ isValid' = FALSE

\* the while condition is evaluated again after an iteration
AfterIteration(valid, attempts) ==
    IF ValidateLoopContinues(valid, attempts, maxValidationRetries)
    THEN /\ ppc' = "p4_validate"
         /\ vIdx' = vIdx
         /\ validationAttempts' = attempts
         /\ isValid' = valid
    ELSE EnterValidateLoop(vIdx + 1)

\* Phase 4: status validating
ValidatingStatus ==
    /\ ppc = "p4_status"
    /\ WriteStatus("validating", NoData)
    /\ EnterValidateLoop(1)
    /\ UNCHANGED <<execVars, apiVars, estVars, auxVars, lostTokens,
                   analysis, suggestError, outcome, totalTokens, suggestions, deductCalls, cancels, wsStatus, maxValidationRetries, plan, sortedFiles, fileIdx,
                   attempted, generatedFiles, pendingIssues, vStats, store, fatal>>

\* Phase 4: validator.validateFile answers valid
ValidationValid(tok) ==
    /\ ppc = "p4_validate"
    /\ generatedFiles' = [generatedFiles EXCEPT ![vIdx].validated = TRUE]
    /\ vStats' = [vStats EXCEPT ![vIdx].nValidate = @ + 1, ![vIdx].nValid = @ + 1,
                                ![vIdx].lastValid = TRUE, ![vIdx].lastIssues = <<>>]
    /\ AfterIteration(TRUE, validationAttempts + 1)
    /\ totalTokens' = totalTokens + tok
    /\ UNCHANGED <<execVars, apiVars, estVars, auxVars, lostTokens,
                   analysis, suggestError, outcome, suggestions, deductCalls, session, statusLog, cancels, wsStatus, maxValidationRetries, plan,
                   sortedFiles, fileIdx, attempted, pendingIssues, store, fatal>>

\* Phase 4: validator.validateFile answers invalid with an issue list
ValidationInvalid(issues, tok) ==
    /\ ppc = "p4_validate"
    /\ vStats' = [vStats EXCEPT ![vIdx].nValidate = @ + 1, ![vIdx].lastValid = FALSE,
                                ![vIdx].lastIssues = issues]
    /\ validationAttempts' = validationAttempts + 1
    /\ pendingIssues' = issues
    /\ ppc' = "p4_fix"
    /\ totalTokens' = totalTokens + tok
    /\ UNCHANGED <<execVars, apiVars, estVars, auxVars, lostTokens,
                   analysis, suggestError, outcome, suggestions, deductCalls, session, statusLog, cancels, wsStatus, maxValidationRetries, plan,
                   sortedFiles, fileIdx, attempted, generatedFiles, vIdx, isValid,
                   store, fatal>>

\* Phase 4: execute returns, then JSON.parse rejects the content:
\* validateFile throws and the answer's usage is dropped with it
ValidationUnparsable(tok) ==
    /\ ppc = "p4_validate"
    /\ vStats' = [vStats EXCEPT ![vIdx].nValidate = @ + 1]
    /\ validationAttempts' = validationAttempts + 1
    /\ lostTokens' = lostTokens + tok
    /\ Throw
    /\ UNCHANGED <<execVars, apiVars, estVars, auxVars, analysis, suggestError, outcome,
                   totalTokens, suggestions, deductCalls, session, statusLog, cancels,
                   wsStatus, maxValidationRetries, plan, sortedFiles, fileIdx, attempted,
                   generatedFiles, vIdx, isValid, pendingIssues, store>>

\* Phase 4: validator.validateFile throws because execute failed
ValidationFails ==
    /\ ppc = "p4_validate"
    /\ vStats' = [vStats EXCEPT ![vIdx].nValidate = @ + 1]
    /\ validationAttempts' = validationAttempts + 1
    /\ Throw
    /\ UNCHANGED <<execVars, apiVars, estVars, auxVars, lostTokens,
                   analysis, suggestError, outcome, totalTokens, suggestions, deductCalls, session, statusLog, cancels, wsStatus, maxValidationRetries, plan,
                   sortedFiles, fileIdx, attempted, generatedFiles, vIdx, isValid,
                   pendingIssues, store>>

\* Phase 4: validator.fix returns; content and errors replaced, file upserted
FileFixed(tok) ==
    /\ ppc = "p4_fix"
    /\ LET f == generatedFiles[vIdx]
           content == f.content + 1
       IN  /\ generatedFiles' = [generatedFiles EXCEPT ![vIdx].content = content,
                                                      ![vIdx].hasErrors = TRUE,
                                                      ![vIdx].errors = pendingIssues]
           /\ store' = [store EXCEPT ![f.path] = content]
    /\ vStats' = [vStats EXCEPT ![vIdx].nFix = @ + 1]
    /\ AfterIteration(isValid, validationAttempts)
    /\ totalTokens' = totalTokens + tok
    /\ UNCHANGED <<execVars, apiVars, estVars, auxVars, lostTokens,
                   analysis, suggestError, outcome, suggestions, deductCalls, session, statusLog, cancels, wsStatus, maxValidationRetries, plan,
                   sortedFiles, fileIdx, attempted, pendingIssues, fatal>>

\* Phase 4: validator.fix throws
FixFails ==
    /\ ppc = "p4_fix"
    /\ vStats' = [vStats EXCEPT ![vIdx].nFix = @ + 1]
    /\ Throw
    /\ UNCHANGED <<execVars, apiVars, estVars, auxVars, lostTokens,
                   analysis, suggestError, outcome, totalTokens, suggestions, deductCalls, session, statusLog, cancels, wsStatus, maxValidationRetries, plan,
                   sortedFiles, fileIdx, attempted, generatedFiles, vIdx,
                   validationAttempts, isValid, pendingIssues, store>>

\* Phase 4: validator.fix returns and the file object is updated, then
\* upsertFile throws
FixPersistFails(tok) ==
    /\ ppc = "p4_fix"
    /\ generatedFiles' = [generatedFiles EXCEPT ![vIdx].content = @ + 1,
                                                ![vIdx].hasErrors = TRUE,
                                                ![vIdx].errors = pendingIssues]
    /\ vStats' = [vStats EXCEPT ![vIdx].nFix = @ + 1]
    /\ totalTokens' = totalTokens + tok
    /\ Throw
    /\ UNCHANGED <<execVars, apiVars, estVars, auxVars, lostTokens,
                   analysis, suggestError, outcome, suggestions, deductCalls, session, statusLog, cancels,
                   wsStatus, maxValidationRetries, plan, sortedFiles, fileIdx, attempted,
                   vIdx, validationAttempts, isValid, pendingIssues, store>>

\* the follow-up suggestion lists the model may answer with
SuggestionLists == {<<>>, <<"s1">>}

\* the catch block of Phase 5: the error is logged and the run goes on
SuggestErrorRethrown == Throw
SuggestErrorCaught ==
    /\ ppc' = "complete"
    /\ fatal' = fatal

\* Phase 5: suggest returns JSON with a suggestion list (or none)
SuggestReturns(list, tok) ==
    /\ ppc = "p5_suggest"
    /\ suggestions' = list
    /\ totalTokens' = totalTokens + tok
    /\ ppc' = "complete"
    /\ UNCHANGED <<execVars, apiVars, estVars, auxVars, lostTokens,
                   analysis, suggestError, outcome, deductCalls, session, statusLog, cancels, wsStatus,
                   maxValidationRetries, plan, sortedFiles, fileIdx, attempted,
                   generatedFiles, vIdx, validationAttempts, isValid, pendingIssues,
                   vStats, store, fatal>>

\* Phase 5: suggest returns, then its content is not JSON or not an object:
\* the throw is caught before the answer's usage is added
SuggestUnparsable(tok) ==
    /\ ppc = "p5_suggest"
    /\ SuggestErrorCaught
    /\ suggestError' = TRUE
    /\ lostTokens' = lostTokens + tok
    /\ UNCHANGED <<execVars, apiVars, estVars, auxVars, analysis, outcome, totalTokens,
                   suggestions, deductCalls, session, statusLog, cancels, wsStatus,
                   maxValidationRetries, plan, sortedFiles, fileIdx, attempted,
                   generatedFiles, vIdx, validationAttempts, isValid, pendingIssues,
                   vStats, store>>

\* Phase 5: suggest throws
SuggestFails ==
    /\ ppc = "p5_suggest"
    /\ SuggestErrorCaught
    /\ suggestError' = TRUE
    /\ UNCHANGED <<execVars, apiVars, estVars, auxVars, lostTokens,
                   analysis, outcome, totalTokens, suggestions, deductCalls, session,
                   statusLog, cancels, wsStatus, maxValidationRetries, plan, sortedFiles,
                   fileIdx, attempted, generatedFiles, vIdx, validationAttempts, isValid,
                   pendingIssues, vStats, store>>

\* COMPLETE: status completed
Complete ==
    /\ ppc = "complete"
    /\ WriteStatus("completed", [files_generated |-> Len(generatedFiles),
                                 tokens_used |-> totalTokens])
    /\ ppc' = "ws_ready"
    /\ UNCHANGED <<execVars, apiVars, estVars, auxVars, lostTokens,
                   analysis, suggestError, outcome, totalTokens, suggestions, deductCalls, cancels, wsStatus, maxValidationRetries, plan, sortedFiles, fileIdx,
                   attempted, generatedFiles, vIdx, validationAttempts, isValid,
                   pendingIssues, vStats, store, fatal>>

\* COMPLETE: workspace ready, run() returns success
WorkspaceReady ==
    /\ ppc = "ws_ready"
    /\ wsStatus' = "ready"
    /\ ppc' = "done"
    /\ UNCHANGED <<execVars, apiVars, estVars, auxVars, lostTokens,
                   analysis, suggestError, outcome, totalTokens, suggestions, deductCalls, session, statusLog, cancels, maxValidationRetries, plan, sortedFiles,
                   fileIdx, attempted, generatedFiles, vIdx, validationAttempts, isValid,
                   pendingIssues, vStats, store, fatal>>

\* the status the catch block writes
CatchStatusCompleted == "completed"
CatchStatus == "failed"

\* catch block: status failed with the error message
Catch ==
    /\ ppc = "catch"
    /\ WriteStatus(CatchStatus, [error_message |-> "error", tokens_used |-> totalTokens])
    /\ ppc' = "ws_error"
    /\ UNCHANGED <<execVars, apiVars, estVars, auxVars, lostTokens,
                   analysis, suggestError, outcome, totalTokens, suggestions, deductCalls, cancels, wsStatus, maxValidationRetries, plan, sortedFiles, fileIdx,
                   attempted, generatedFiles, vIdx, validationAttempts, isValid,
                   pendingIssues, vStats, store, fatal>>

\* catch block: workspace error, run() returns failure
WorkspaceError ==
    /\ ppc = "ws_error"
    /\ wsStatus' = "error"
    /\ ppc' = "done"
    /\ UNCHANGED <<execVars, apiVars, estVars, auxVars, lostTokens,
                   analysis, suggestError, outcome, totalTokens, suggestions, deductCalls, session, statusLog, cancels, maxValidationRetries, plan, sortedFiles,
                   fileIdx, attempted, generatedFiles, vIdx, validationAttempts, isValid,
                   pendingIssues, vStats, store, fatal>>

\* the condition of the deduction in the handler's then callback
DeductsAlways(tokens) == TRUE
ShouldDeduct(tokens) == tokens > 0

\* pipeline.run().then: deductCredits is called with the run's tokens; an
\* error of deductCredits is caught and logged
DeductCredits ==
    /\ ppc = "done"
    /\ ShouldDeduct(totalTokens)
    /\ deductCalls' = deductCalls + 1
    /\ ppc' = "settled"
    /\ UNCHANGED <<execVars, apiVars, estVars, auxVars, lostTokens,
                   analysis, suggestError, outcome, totalTokens, suggestions, session, statusLog, cancels,
                   wsStatus, maxValidationRetries, plan, sortedFiles, fileIdx, attempted,
                   generatedFiles, vIdx, validationAttempts, isValid, pendingIssues,
                   vStats, store, fatal>>

\* pipeline.run().then: the run used no tokens, nothing is deducted
NoDeduction ==
    /\ ppc = "done"
    /\ ~ShouldDeduct(totalTokens)
    /\ ppc' = "settled"
    /\ UNCHANGED <<execVars, apiVars, estVars, auxVars, lostTokens,
                   analysis, suggestError, outcome, totalTokens, suggestions, deductCalls, session,
                   statusLog, cancels, wsStatus, maxValidationRetries, plan, sortedFiles,
                   fileIdx, attempted, generatedFiles, vIdx, validationAttempts, isValid,
                   pendingIssues, vStats, store, fatal>>

(***************************************************************************)
(* pipeline.ts: RefinementPipeline.refine, api/generate.ts: refine         *)
(***************************************************************************)
MaxRefineFiles == 1

\* the paths a refinement analysis may name
RefinePaths == {PathSeq[1], PathSeq[2]}

RefineLists ==
    UNION {[1..k -> RefinePaths] : k \in 0..MaxRefineFiles}

\* JSON.parse(analysisResult.content): the two lists, each read with || []
Analyses == [filesToModify : RefineLists, newFiles : RefineLists]

\* what refine never touches
genOnlyVars == <<cancels, maxValidationRetries, plan, sortedFiles, attempted, vIdx,
                 validationAttempts, isValid, pendingIssues, vStats, outcome,
                 suggestions, suggestError, lostTokens>>

\* an exception reaches the catch block of refine()
RefineThrow ==
    /\ ppc' = "r_catch"
    /\ fatal' = TRUE

\* the loop over analysis.newFiles reaches index i or is left
EnterCreateLoop(an, i) ==
    /\ fileIdx' = i
    /\ ppc' = IF i <= Len(an.newFiles) THEN "r_create" ELSE "r_complete"

\* the loop over analysis.filesToModify reaches index i or is left
EnterModifyLoop(an, i) ==
    IF i <= Len(an.filesToModify)
    THEN /\ fileIdx' = i
         /\ ppc' = "r_modify"
    ELSE EnterCreateLoop(an, 1)

\* generatedFiles.push of refine
RefinedFile(path) ==
    [path |-> path, content |-> store[path] + 1, validated |-> FALSE,
     hasErrors |-> FALSE, errors |-> <<>>]

\* POST /:workspaceId/refine: the session is created, the workspace marked
\* generating and refine started in the background
StartRefinement ==
    /\ ppc = "none"
    /\ wsStatus # "generating"
    /\ session' = CreateSession
    /\ statusLog' = <<"pending">>
    /\ wsStatus' = "generating"
    /\ ppc' = "r_analysis"
    /\ UNCHANGED <<execVars, apiVars, estVars, auxVars, lostTokens,
                   auxVars, genOnlyVars, analysis, fileIdx,
                   generatedFiles, store, fatal, totalTokens, deductCalls>>

\* the REASONING call returns and its content parses
RefineAnalysed(an, tok) ==
    /\ ppc = "r_analysis"
    /\ analysis' = an
    /\ totalTokens' = totalTokens + tok
    /\ EnterModifyLoop(an, 1)
    /\ UNCHANGED <<execVars, apiVars, estVars, auxVars, lostTokens,
                   auxVars, genOnlyVars, session, statusLog, wsStatus,
                   generatedFiles, store, fatal, deductCalls>>

\* db.getWorkspaceFiles or the REASONING call throws
RefineAnalysisFails ==
    /\ ppc = "r_analysis"
    /\ RefineThrow
    /\ UNCHANGED <<execVars, apiVars, estVars, auxVars, lostTokens,
                   auxVars, genOnlyVars, session, statusLog, wsStatus,
                   analysis, fileIdx, generatedFiles, store, totalTokens, deductCalls>>

\* the REASONING call returns, its tokens are counted, JSON.parse throws
RefineAnalysisUnparsable(tok) ==
    /\ ppc = "r_analysis"
    /\ totalTokens' = totalTokens + tok
    /\ RefineThrow
    /\ UNCHANGED <<execVars, apiVars, estVars, auxVars, lostTokens,
                   auxVars, genOnlyVars, session, statusLog, wsStatus,
                   analysis, fileIdx, generatedFiles, store, deductCalls>>

\* modify loop: the named file does not exist, continue
RefineModifySkipped ==
    /\ ppc = "r_modify"
    /\ store[analysis.filesToModify[fileIdx]] = 0
    /\ EnterModifyLoop(analysis, fileIdx + 1)
    /\ UNCHANGED <<execVars, apiVars, estVars, auxVars, lostTokens,
                   auxVars, genOnlyVars, session, statusLog, wsStatus,
                   analysis, generatedFiles, store, fatal, totalTokens, deductCalls>>

\* modify loop: the CODING call returns, the file is pushed and upserted
RefineModified(tok) ==
    /\ ppc = "r_modify"
    /\ LET path == analysis.filesToModify[fileIdx] IN
       /\ store[path] # 0
       /\ generatedFiles' = Append(generatedFiles, RefinedFile(path))
       /\ store' = [store EXCEPT ![path] = @ + 1]
    /\ totalTokens' = totalTokens + tok
    /\ EnterModifyLoop(analysis, fileIdx + 1)
    /\ UNCHANGED <<execVars, apiVars, estVars, auxVars, lostTokens,
                   auxVars, genOnlyVars, session, statusLog, wsStatus,
                   analysis, fatal, deductCalls>>

\* modify loop: the CODING call throws
RefineModifyFails ==
    /\ ppc = "r_modify"
    /\ store[analysis.filesToModify[fileIdx]] # 0
    /\ RefineThrow
    /\ UNCHANGED <<execVars, apiVars, estVars, auxVars, lostTokens,
                   auxVars, genOnlyVars, session, statusLog, wsStatus,
                   analysis, fileIdx, generatedFiles, store, totalTokens, deductCalls>>

\* modify loop: the file is pushed, then upsertFile throws
RefineModifyPersistFails(tok) ==
    /\ ppc = "r_modify"
    /\ LET path == analysis.filesToModify[fileIdx] IN
       /\ store[path] # 0
       /\ generatedFiles' = Append(generatedFiles, RefinedFile(path))
    /\ totalTokens' = totalTokens + tok
    /\ RefineThrow
    /\ UNCHANGED <<execVars, apiVars, estVars, auxVars, lostTokens,
                   auxVars, genOnlyVars, session, statusLog, wsStatus,
                   analysis, fileIdx, store, deductCalls>>

\* create loop: the CODING call returns, the file is pushed and upserted
RefineCreated(tok) ==
    /\ ppc = "r_create"
    /\ LET path == analysis.newFiles[fileIdx] IN
       /\ generatedFiles' = Append(generatedFiles, RefinedFile(path))
       /\ store' = [store EXCEPT ![path] = @ + 1]
    /\ totalTokens' = totalTokens + tok
    /\ EnterCreateLoop(analysis, fileIdx + 1)
    /\ UNCHANGED <<execVars, apiVars, estVars, auxVars, lostTokens,
                   auxVars, genOnlyVars, session, statusLog, wsStatus,
                   analysis, fatal, deductCalls>>

\* create loop: the CODING call throws
RefineCreateFails ==
    /\ ppc = "r_create"
    /\ RefineThrow
    /\ UNCHANGED <<execVars, apiVars, estVars, auxVars, lostTokens,
                   auxVars, genOnlyVars, session, statusLog, wsStatus,
                   analysis, fileIdx, generatedFiles, store, totalTokens, deductCalls>>

\* create loop: the file is pushed, then upsertFile throws
RefineCreatePersistFails(tok) ==
    /\ ppc = "r_create"
    /\ generatedFiles' = Append(generatedFiles, RefinedFile(analysis.newFiles[fileIdx]))
    /\ totalTokens' = totalTokens + tok
    /\ RefineThrow
    /\ UNCHANGED <<execVars, apiVars, estVars, auxVars, lostTokens,
                   auxVars, genOnlyVars, session, statusLog, wsStatus,
                   analysis, fileIdx, store, deductCalls>>

\* both loops done: the session is completed, refine returns success
RefineComplete ==
    /\ ppc = "r_complete"
    /\ session' = UpdateSession(session, [status |-> "completed",
                                          tokens_used |-> totalTokens,
                                          completed_at |-> TRUE])
    /\ statusLog' = Logged("completed")
    /\ ppc' = "done"
    /\ UNCHANGED <<execVars, apiVars, estVars, auxVars, lostTokens,
                   auxVars, genOnlyVars, wsStatus, analysis, fileIdx,
                   generatedFiles, store, fatal, totalTokens, deductCalls>>

\* catch block: the session is failed, refine returns failure
RefineCatch ==
    /\ ppc = "r_catch"
    /\ session' = UpdateSession(session, [status |-> "failed",
                                          error_message |-> "error",
                                          completed_at |-> TRUE])
    /\ statusLog' = Logged("failed")
    /\ ppc' = "done"
    /\ UNCHANGED <<execVars, apiVars, estVars, auxVars, lostTokens,
                   auxVars, genOnlyVars, wsStatus, analysis, fileIdx,
                   generatedFiles, store, fatal, totalTokens, deductCalls>>

(***************************************************************************)
(* api/generate.ts: concurrent start and refine requests of one workspace  *)
(***************************************************************************)
MaxRequests == 2
Requests == 1..MaxRequests

ApiIdle ==
    /\ reqKind = [r \in Requests |-> "none"]
    /\ reqPc = [r \in Requests |-> "none"]
    /\ sessionsOf = {}
    /\ activeRuns = {}

\* what a run keeps to itself; the request handlers only touch the
\* workspace status
runVars == <<session, statusLog, cancels, ppc, maxValidationRetries, plan, sortedFiles,
             fileIdx, attempted, generatedFiles, vIdx, validationAttempts, isValid,
             pendingIssues, vStats, store, fatal, outcome, totalTokens, suggestions,
             deductCalls, analysis, suggestError, lostTokens>>

\* a start or refine request has passed creditsMiddleware and its schema;
\* the handler awaits db.getWorkspace
RequestArrives(r, kind) ==
    /\ reqPc[r] = "none"
    /\ reqKind' = [reqKind EXCEPT ![r] = kind]
    /\ reqPc' = [reqPc EXCEPT ![r] = "getWorkspace"]
    /\ UNCHANGED <<execVars, estVars, auxVars, runVars, wsStatus, sessionsOf, activeRuns>>

\* db.getWorkspace resolves with the workspace row: 409 when its status is
\* generating, else the handler awaits db.createSession
WorkspaceRead(r) ==
    /\ reqPc[r] = "getWorkspace"
    /\ reqPc' = [reqPc EXCEPT ![r] = IF wsStatus = "generating" THEN "409"
                                    ELSE "createSession"]
    /\ UNCHANGED <<execVars, estVars, auxVars, runVars, wsStatus, reqKind, sessionsOf, activeRuns>>

\* db.createSession resolves; the handler awaits db.updateWorkspaceStatus
SessionCreated(r) ==
    /\ reqPc[r] = "createSession"
    /\ sessionsOf' = sessionsOf \cup {r}
    /\ reqPc' = [reqPc EXCEPT ![r] = "updateWorkspaceStatus"]
    /\ UNCHANGED <<execVars, estVars, auxVars, runVars, wsStatus, reqKind, activeRuns>>

\* db.updateWorkspaceStatus(generating) resolves; the pipeline is started in
\* the background and the request answered
RunStarted(r) ==
    /\ reqPc[r] = "updateWorkspaceStatus"
    /\ wsStatus' = "generating"
    /\ activeRuns' = activeRuns \cup {r}
    /\ reqPc' = [reqPc EXCEPT ![r] = "200"]
    /\ UNCHANGED <<execVars, estVars, auxVars, runVars, reqKind, sessionsOf>>

\* GenerationPipeline.run ends: workspace ready after completion, error
\* after the catch block
GenerationEnds(r, status) ==
    /\ r \in activeRuns
    /\ reqKind[r] = "start"
    /\ wsStatus' = status
    /\ activeRuns' = activeRuns \ {r}
    /\ UNCHANGED <<execVars, estVars, auxVars, runVars, reqKind, reqPc, sessionsOf>>

\* RefinementPipeline.refine ends; it does not write the workspace status
RefinementEnds(r) ==
    /\ r \in activeRuns
    /\ reqKind[r] = "refine"
    /\ activeRuns' = activeRuns \ {r}
    /\ UNCHANGED <<execVars, estVars, auxVars, runVars, wsStatus, reqKind, reqPc, sessionsOf>>

NextApi ==
    \/ \E r \in Requests, kind \in {"start", "refine"} : RequestArrives(r, kind)
    \/ \E r \in Requests : WorkspaceRead(r)
    \/ \E r \in Requests : SessionCreated(r)
    \/ \E r \in Requests : RunStarted(r)
    \/ \E r \in Requests, status \in {"ready", "error"} : GenerationEnds(r, status)
    \/ \E r \in Requests : RefinementEnds(r)

(***************************************************************************)
(* middleware/credits.ts: estimateCredits                                  *)
(***************************************************************************)
MaxLenOffset == 8
MaxFilesCount == 11

\* prompt lengths at both sides of the lengths where the complexity changes
PromptLengths == {b + d : b \in {0, 3996, 7996, 49996}, d \in 0..MaxLenOffset}

\* promptTokens + contextTokens + (filesCount || 5) * outputTokensPerFile
estimatedTokens(len, n) ==
    (len + 3) \div 4 + n * 500 + (IF n = 0 THEN 5 ELSE n) * 1500

complexityOf(tokens) ==
    IF tokens < 5000 THEN "low"
    ELSE IF tokens > 20000 THEN "high"
    ELSE "medium"

\* the complexity multipliers 1, 1.5 and 2, in halves
multipliersReversed(c) == CASE c = "low" -> 4 [] c = "medium" -> 3 [] c = "high" -> 2
multipliers(c) == CASE c = "low" -> 2 [] c = "medium" -> 3 [] c = "high" -> 4

\* Math.ceil(estimatedTokens * env.CREDITS_COST_MULTIPLIER * multiplier) with
\* the default cost multiplier 0.001
estimatedCredits(tokens) ==
    (tokens * multipliers(complexityOf(tokens)) + 1999) \div 2000

estimateCredits(len, n) ==
    [estimatedTokens |-> estimatedTokens(len, n),
     estimatedCredits |-> estimatedCredits(estimatedTokens(len, n)),
     complexity |-> complexityOf(estimatedTokens(len, n))]

\* estimateCredits is called with a prompt of the given length and a files
\* count; the second call shares one argument with the first
EstimateCalled(len, n) ==
    /\ Len(estArgs) < 2
    /\ estArgs # <<>> => (estArgs[1].len = len \/ estArgs[1].n = n)
    /\ estArgs' = Append(estArgs, [len |-> len, n |-> n])
    /\ estOut' = Append(estOut, estimateCredits(len, n))
    /\ UNCHANGED <<execVars, pipeVars, apiVars, auxVars>>

NextEstimate ==
    \E len \in PromptLengths, n \in 0..MaxFilesCount : EstimateCalled(len, n)

(***************************************************************************)
(* buildable-ai.ts: BuildableAI.stream and the provider stream adapters    *)
(***************************************************************************)
MaxChunks == 2

NoCand == Cand("none", "none")

StreamIdle ==
    /\ sTask = "none" /\ spc = "idle" /\ sCand = NoCand /\ sOpens = <<>>
    /\ chunks = <<>> /\ sThrown = NoError

\* stream: the primary when its provider has a key, else the fallback; the
\* stream throws when the provider chosen has no key
StreamCandidateFallbackFirst(t) ==
    IF isProviderAvailable(ModelRouting(t).fallback.provider)
    THEN ModelRouting(t).fallback
    ELSE ModelRouting(t).primary
StreamCandidate(t) ==
    IF isProviderAvailable(ModelRouting(t).primary.provider)
    THEN ModelRouting(t).primary
    ELSE ModelRouting(t).fallback

\* finish_reason of a chat completion chunk; "null" while the answer goes on
FinishReasons == {"stop", "length", "content_filter", "tool_calls"}

\* finishReason of the last Gemini response chunk whose text can be read
GeminiFinishReasons == {"STOP", "MAX_TOKENS"}

OpenAICompatible(p) == p \in {"grok", "openai"}

\* a chunk as the generator yields it; reason records what the provider sent
Chunk(done, reason) == [done |-> done, reason |-> reason]

\* the done flag streamOpenAICompatible yields for a provider chunk
DoneFlag(reason) == reason = "stop"

\* the generator is started for task t: the candidate is chosen
StreamStart(t) ==
    /\ spc = "idle"
    /\ sTask' = t
    /\ IF isProviderAvailable(StreamCandidate(t).provider)
       THEN /\ sCand' = StreamCandidate(t)
            /\ spc' = "open"
            /\ sThrown' = sThrown
       ELSE /\ sCand' = sCand
            /\ spc' = "thrown"
            /\ sThrown' = NoProvidersError
    /\ UNCHANGED <<execVars, pipeVars, apiVars, estVars, rateVars, gateVars, sOpens, chunks>>

\* the provider accepts the streaming request
StreamOpened ==
    /\ spc = "open"
    /\ sOpens' = Append(sOpens, sCand)
    /\ spc' = "streaming"
    /\ UNCHANGED <<execVars, pipeVars, apiVars, estVars, rateVars, gateVars, sTask, sCand,
                   chunks, sThrown>>

\* the streaming request is rejected: the error leaves the generator
StreamOpenFails(e) ==
    /\ spc = "open"
    /\ sOpens' = Append(sOpens, sCand)
    /\ spc' = "thrown"
    /\ sThrown' = CallError(Len(sOpens) + 1, e)
    /\ UNCHANGED <<execVars, pipeVars, apiVars, estVars, rateVars, gateVars, sTask, sCand,
                   chunks>>

\* the provider stream ended with its last chunk
ProviderStreamOver ==
    /\ chunks # <<>>
    /\ chunks[Len(chunks)].reason # "null"

\* streamOpenAICompatible: a chunk that carries content and no finish_reason
ContentChunk ==
    /\ spc = "streaming"
    /\ OpenAICompatible(sCand.provider)
    /\ Len(chunks) < MaxChunks
    /\ ~ProviderStreamOver
    /\ chunks' = Append(chunks, Chunk(DoneFlag("null"), "null"))
    /\ UNCHANGED <<execVars, pipeVars, apiVars, estVars, rateVars, gateVars, sTask, spc,
                   sCand, sOpens, sThrown>>

\* streamOpenAICompatible: the chunk that carries the finish_reason
FinishChunk(reason) ==
    /\ spc = "streaming"
    /\ OpenAICompatible(sCand.provider)
    /\ ~ProviderStreamOver
    /\ chunks' = Append(chunks, Chunk(DoneFlag(reason), reason))
    /\ UNCHANGED <<execVars, pipeVars, apiVars, estVars, rateVars, gateVars, sTask, spc,
                   sCand, sOpens, sThrown>>

\* streamOpenAICompatible: the provider stream is exhausted, the generator
\* returns
OpenAIStreamEnds ==
    /\ spc = "streaming"
    /\ OpenAICompatible(sCand.provider)
    /\ ProviderStreamOver
    /\ spc' = "ended"
    /\ UNCHANGED <<execVars, pipeVars, apiVars, estVars, rateVars, gateVars, sTask, sCand,
                   sOpens, chunks, sThrown>>

\* streamGemini: a chunk of result.stream
GeminiChunk ==
    /\ spc = "streaming"
    /\ sCand.provider = "gemini"
    /\ Len(chunks) < MaxChunks
    /\ chunks' = Append(chunks, Chunk(FALSE, "null"))
    /\ UNCHANGED <<execVars, pipeVars, apiVars, estVars, rateVars, gateVars, sTask, spc,
                   sCand, sOpens, sThrown>>

\* streamGemini: result.stream is exhausted, the closing chunk is yielded and
\* the generator returns
GeminiStreamEnds(reason) ==
    /\ spc = "streaming"
    /\ sCand.provider = "gemini"
    /\ chunks' = Append(chunks, Chunk(TRUE, reason))
    /\ spc' = "ended"
    /\ UNCHANGED <<execVars, pipeVars, apiVars, estVars, rateVars, gateVars, sTask, sCand,
                   sOpens, sThrown>>

\* reading the provider stream throws: the error leaves the generator
StreamFails(e) ==
    /\ spc = "streaming"
    /\ ~(OpenAICompatible(sCand.provider) /\ ProviderStreamOver)
    /\ spc' = "thrown"
    /\ sThrown' = CallError(Len(sOpens), e)
    /\ UNCHANGED <<execVars, pipeVars, apiVars, estVars, rateVars, gateVars, sTask, sCand,
                   sOpens, chunks>>

NextStream ==
    \/ \E t \in TaskType : StreamStart(t)
    \/ StreamOpened
    \/ \E e \in ProviderErrors : StreamOpenFails(e)
    \/ ContentChunk
    \/ \E reason \in FinishReasons : FinishChunk(reason)
    \/ OpenAIStreamEnds
    \/ GeminiChunk
    \/ \E reason \in GeminiFinishReasons : GeminiStreamEnds(reason)
    \/ \E e \in ProviderErrors : StreamFails(e)

(***************************************************************************)
(* middleware/credits.ts: rateLimitMiddleware                              *)
(***************************************************************************)
MaxTicks == 2

rateLimitWindow == 60000
maxRequestsPerWindow == 30

\* userId, else the x-forwarded-for header, else 'anonymous'
CallerKeys == {"user-1", "anonymous"}

\* how far the clock moves between two requests
ClockAdvances == {1, rateLimitWindow}

\* requestCounts.get(userId) of a key the map does not hold
NoEntry == [present |-> FALSE, count |-> 0, windowStart |-> 0]
Entry(count, windowStart) == [present |-> TRUE, count |-> count, windowStart |-> windowStart]

NoAnswer == [key |-> "none", status |-> "none", at |-> 0]
NoWindow == [open |-> FALSE, start |-> 0, admitted |-> 0]

RateIdle ==
    /\ requestCounts = [k \in CallerKeys |-> NoEntry]
    /\ now = 0 /\ ticks = 0 /\ rlAnswer = NoAnswer
    /\ windowH = [k \in CallerKeys |-> NoWindow]

\* !userLimit || now - userLimit.windowStart > rateLimitWindow
WindowExpiredEarly(e, t) == ~e.present \/ t - e.windowStart >= rateLimitWindow
WindowExpired(e, t) == ~e.present \/ t - e.windowStart > rateLimitWindow

\* userLimit.count >= maxRequestsPerWindow
LimitReachedOneLate(e) == e.count > maxRequestsPerWindow
LimitReached(e) == e.count >= maxRequestsPerWindow

\* userLimit.count++
IncrementLost(e) == e
Incremented(e) == [e EXCEPT !.count = @ + 1]

\* the window of key k as a caller sees it: opened by the first admitted
\* request after the previous window was over
WindowAfter(w, t, admitted) ==
    IF w.open /\ t <= w.start + rateLimitWindow
    THEN [w EXCEPT !.admitted = @ + (IF admitted THEN 1 ELSE 0)]
    ELSE IF admitted THEN [open |-> TRUE, start |-> t, admitted |-> 1] ELSE NoWindow

\* a request of caller k passes through the middleware; the code between
\* requestCounts.get and the set or increment has no await, so it is one step
RateLimitRequest(k) ==
    LET e == requestCounts[k] IN
    /\ IF WindowExpired(e, now)
       THEN /\ requestCounts' = [requestCounts EXCEPT ![k] = Entry(1, now)]
            /\ rlAnswer' = [key |-> k, status |-> "next", at |-> now]
            /\ windowH' = [windowH EXCEPT ![k] = WindowAfter(@, now, TRUE)]
       ELSE IF LimitReached(e)
       THEN /\ requestCounts' = requestCounts
            /\ rlAnswer' = [key |-> k, status |-> "429", at |-> now]
            /\ windowH' = [windowH EXCEPT ![k] = WindowAfter(@, now, FALSE)]
       ELSE /\ requestCounts' = [requestCounts EXCEPT ![k] = Incremented(e)]
            /\ rlAnswer' = [key |-> k, status |-> "next", at |-> now]
            /\ windowH' = [windowH EXCEPT ![k] = WindowAfter(@, now, TRUE)]
    /\ UNCHANGED <<execVars, pipeVars, apiVars, estVars, streamVars, gateVars, now, ticks>>

\* time passes
ClockAdvance(d) ==
    /\ ticks < MaxTicks
    /\ now' = now + d
    /\ ticks' = ticks + 1
    /\ UNCHANGED <<execVars, pipeVars, apiVars, estVars, streamVars, gateVars,
                   requestCounts, rlAnswer, windowH>>

NextRate ==
    \/ \E k \in CallerKeys : RateLimitRequest(k)
    \/ \E d \in ClockAdvances : ClockAdvance(d)

(***************************************************************************)
(* middleware/credits.ts: creditsMiddleware, api/generate.ts: the start    *)
(* and refine handlers up to db.createSession                              *)
(***************************************************************************)
\* getUserCredits found no row
NoRecord == [present |-> FALSE, balance |-> 0, daily_free_remaining |-> 0,
             bonus_credits |-> 0]

CreditRecord(b, d, x) ==
    [present |-> TRUE, balance |-> b, daily_free_remaining |-> d, bonus_credits |-> x]

\* the credit rows a user may have
CreditRecords == {CreditRecord(b, d, x) : b \in {0, 5, 12}, d \in {0, 5}, x \in {0, 3}}

\* body.prompt || '' has this many characters; the request schemas accept
\* 1..10000
GatePrompts == {0, 1, 10000, 10001}
PromptAccepted(len) == len >= 1 /\ len <= 10000

\* DEFAULT_USER_CREDITS and DAILY_FREE_CREDITS of the deployment: the
\* defaults of env.ts, and a deployment that grants no starting balance
EnvCredits == {[DEFAULT_USER_CREDITS |-> 10, DAILY_FREE_CREDITS |-> 5],
               [DEFAULT_USER_CREDITS |-> 0, DAILY_FREE_CREDITS |-> 5]}

\* db.initializeUserCredits: the row a new user starts with
initializeUserCredits(env) ==
    CreditRecord(env.DEFAULT_USER_CREDITS, env.DAILY_FREE_CREDITS, 0)

\* balance + (daily_free_remaining || 0) + (bonus_credits || 0)
totalCredits(c) == c.balance + c.daily_free_remaining + c.bonus_credits

GateIdle ==
    /\ gpc = "idle" /\ gUser = FALSE /\ gCredits = NoRecord /\ gPrompt = 0
    /\ gSessions = 0

\* a start or refine request reaches creditsMiddleware
GateRequest(user, credits, len) ==
    /\ gpc = "idle"
    /\ gUser' = user
    /\ gCredits' = credits
    /\ gPrompt' = len
    /\ gpc' = "middleware"
    /\ UNCHANGED <<execVars, pipeVars, apiVars, estVars, streamVars, rateVars, gSessions>>

\* no userId in the context: 401
MiddlewareUnauthorized ==
    /\ gpc = "middleware"
    /\ ~gUser
    /\ gpc' = "401"
    /\ UNCHANGED <<execVars, pipeVars, apiVars, estVars, streamVars, rateVars, gUser,
                   gCredits, gPrompt, gSessions>>

\* db.getUserCredits or db.initializeUserCredits throws: 500
MiddlewareFails ==
    /\ gpc = "middleware"
    /\ gUser
    /\ gpc' = "500"
    /\ UNCHANGED <<execVars, pipeVars, apiVars, estVars, streamVars, rateVars, gUser,
                   gCredits, gPrompt, gSessions>>

\* no credit row: the row is initialised and next() is called
MiddlewareNewUser(env) ==
    /\ gpc = "middleware"
    /\ gUser
    /\ ~gCredits.present
    /\ gCredits' = initializeUserCredits(env)
    /\ gpc' = "handler"
    /\ UNCHANGED <<execVars, pipeVars, apiVars, estVars, streamVars, rateVars, gUser,
                   gPrompt, gSessions>>

\* a credit row exists: 402 when the total is below the estimate, else next()
MiddlewareChecks ==
    /\ gpc = "middleware"
    /\ gUser
    /\ gCredits.present
    /\ gpc' = IF totalCredits(gCredits) < estimateCredits(gPrompt, 0).estimatedCredits
              THEN "402" ELSE "handler"
    /\ UNCHANGED <<execVars, pipeVars, apiVars, estVars, streamVars, rateVars, gUser,
                   gCredits, gPrompt, gSessions>>

\* the handler rejects the body: 400
HandlerInvalid ==
    /\ gpc = "handler"
    /\ ~PromptAccepted(gPrompt)
    /\ gpc' = "400"
    /\ UNCHANGED <<execVars, pipeVars, apiVars, estVars, streamVars, rateVars, gUser,
                   gCredits, gPrompt, gSessions>>

\* the handler answers 404 (no workspace), 409 (already generating) or 500
HandlerRejects(code) ==
    /\ gpc = "handler"
    /\ PromptAccepted(gPrompt)
    /\ gpc' = code
    /\ UNCHANGED <<execVars, pipeVars, apiVars, estVars, streamVars, rateVars, gUser,
                   gCredits, gPrompt, gSessions>>

\* the handler creates the session and starts the run
HandlerStarts ==
    /\ gpc = "handler"
    /\ PromptAccepted(gPrompt)
    /\ gSessions' = gSessions + 1
    /\ gpc' = "200"
    /\ UNCHANGED <<execVars, pipeVars, apiVars, estVars, streamVars, rateVars, gUser,
                   gCredits, gPrompt>>

NextGate ==
    \/ \E user \in BOOLEAN, credits \in CreditRecords \cup {NoRecord}, len \in GatePrompts :
          GateRequest(user, credits, len)
    \/ MiddlewareUnauthorized
    \/ MiddlewareFails
    \/ \E env \in EnvCredits : MiddlewareNewUser(env)
    \/ MiddlewareChecks
    \/ HandlerInvalid
    \/ \E code \in {"404", "409", "500"} : HandlerRejects(code)
    \/ HandlerStarts

AuxIdle == StreamIdle /\ RateIdle /\ GateIdle

(***************************************************************************)
(* Plans the architect may return                                          *)
(***************************************************************************)
MaxFiles == 3
MaxDeps == 2
MaxPriority == 1
MaxPipeFiles == 2

\* dependency count and optional priority of a planned file
FileKinds ==
    {k \in [ndeps : 0..MaxDeps, hasPriority : BOOLEAN, priority : 0..MaxPriority] :
        ~k.hasPriority => k.priority = 0}
PlainKinds == {k \in FileKinds : k.ndeps = 0 /\ ~k.hasPriority}

\* plans of up to n files of the given kinds, file i at path PathSeq[i]
Plans(n, kinds) ==
    UNION {{[i \in 1..k |-> FileSpec(PathSeq[i], f[i].ndeps, f[i].hasPriority,
                                     f[i].priority)] : f \in [1..k -> kinds]} :
           k \in 0..n}

\* plans of up to n files whose paths are any strings the schema accepts,
\* the same one twice included
PathPlans(n) ==
    UNION {{[i \in 1..k |-> FileSpec(f[i], 0, FALSE, 0)] : f \in [1..k -> RefinePaths]} :
           k \in 0..n}

(***************************************************************************)
(* Specifications                                                          *)
(***************************************************************************)
\* one generation run up to its return, with every validation budget,
\* interleaved with cancel; the provider answers report no token usage
NextPipe ==
    \/ \E r \in ValidationRetryOptions : StartGeneration(r)
    \/ CancelSession
    \/ PlanningStatus
    \/ \E files \in Plans(MaxPipeFiles, PlainKinds) : PlanCreated(files, 0)
    \/ PlanFails
    \/ ScaffoldingStatus
    \/ GeneratingStatus
    \/ FileGenerated(0)
    \/ FileProgress
    \/ FileGenerationFails
    \/ FilePersistFails(0)
    \/ ValidatingStatus
    \/ ValidationValid(0)
    \/ \E issues \in IssueLists : ValidationInvalid(issues, 0)
    \/ ValidationFails
    \/ FileFixed(0)
    \/ FixFails
    \/ FixPersistFails(0)
    \/ \E list \in SuggestionLists : SuggestReturns(list, 0)
    \/ SuggestFails
    \/ Complete
    \/ WorkspaceReady
    \/ Catch
    \/ WorkspaceError

\* one generation run or one refinement run whose provider answers report
\* any token usage, validation budgets up to MaxCreditRetries, no cancel
NextCredits ==
    \/ \E r \in 0..MaxCreditRetries : StartGeneration(r)
    \/ PlanningStatus
    \/ \E files \in Plans(MaxCreditFiles, PlainKinds), tok \in TokenUsage : PlanCreated(files, tok)
    \/ PlanFails
    \/ \E tok \in TokenUsage : PlanUnparsable(tok)
    \/ ScaffoldingStatus
    \/ GeneratingStatus
    \/ \E tok \in TokenUsage : FileGenerated(tok)
    \/ FileProgress
    \/ FileGenerationFails
    \/ \E tok \in TokenUsage : FilePersistFails(tok)
    \/ ValidatingStatus
    \/ \E tok \in TokenUsage : ValidationValid(tok)
    \/ \E issues \in IssueLists, tok \in TokenUsage : ValidationInvalid(issues, tok)
    \/ ValidationFails
    \/ \E tok \in TokenUsage : ValidationUnparsable(tok)
    \/ \E tok \in TokenUsage : FileFixed(tok)
    \/ FixFails
    \/ \E tok \in TokenUsage : FixPersistFails(tok)
    \/ \E list \in SuggestionLists, tok \in TokenUsage : SuggestReturns(list, tok)
    \/ SuggestFails
    \/ \E tok \in TokenUsage : SuggestUnparsable(tok)
    \/ Complete
    \/ WorkspaceReady
    \/ Catch
    \/ WorkspaceError
    \/ DeductCredits
    \/ NoDeduction
    \/ StartRefinement
    \/ \E an \in Analyses, tok \in TokenUsage : RefineAnalysed(an, tok)
    \/ RefineAnalysisFails
    \/ \E tok \in TokenUsage : RefineAnalysisUnparsable(tok)
    \/ RefineModifySkipped
    \/ \E tok \in TokenUsage : RefineModified(tok)
    \/ RefineModifyFails
    \/ \E tok \in TokenUsage : RefineModifyPersistFails(tok)
    \/ \E tok \in TokenUsage : RefineCreated(tok)
    \/ RefineCreateFails
    \/ \E tok \in TokenUsage : RefineCreatePersistFails(tok)
    \/ RefineComplete
    \/ RefineCatch

\* one generation run over every plan shape, validation budget 0
NextSort ==
    \/ StartGeneration(0)
    \/ PlanningStatus
    \/ \E files \in Plans(MaxFiles, FileKinds) \cup PathPlans(MaxPipeFiles) :
          PlanCreated(files, 1)
    \/ ScaffoldingStatus
    \/ GeneratingStatus
    \/ FileGenerated(1)
    \/ FileProgress
    \/ FileGenerationFails
    \/ ValidatingStatus
    \/ SuggestFails
    \/ Complete
    \/ WorkspaceReady
    \/ DeductCredits

EstIdle == estArgs = <<>> /\ estOut = <<>>

InitExecOnly == InitExec /\ PipeIdle /\ ApiIdle /\ EstIdle /\ AuxIdle
SpecExec == InitExecOnly /\ [][NextExec]_vars

ExecUnused == keys = AIProvider /\ retryCount = 2 /\ ExecIdle
InitPipe == ExecUnused /\ PipeIdle /\ ApiIdle /\ EstIdle /\ AuxIdle
SpecApi == InitPipe /\ [][NextApi]_vars
SpecEstimate == InitPipe /\ [][NextEstimate]_vars
SpecPipe == InitPipe /\ [][NextPipe]_vars
SpecSort == InitPipe /\ [][NextSort]_vars
SpecStream == InitExecOnly /\ [][NextStream]_vars
SpecRate == InitPipe /\ [][NextRate]_vars
SpecGate == InitPipe /\ [][NextGate]_vars

\* the workspace files a run may find
ExistingStores ==
    {files \in [Paths -> 0..1] : \A p \in Paths \ RefinePaths : files[p] = 0}
InitCredits ==
    /\ ExecUnused /\ ApiIdle /\ EstIdle /\ AuxIdle
    /\ \E files \in ExistingStores : PipeStart(files)
SpecCredits == InitCredits /\ [][NextCredits]_vars

Init == InitExecOnly
Next == NextExec
Spec == SpecExec

(***************************************************************************)
(* Properties                                                              *)
(***************************************************************************)
IsPrefix(a, b) == Len(a) <= Len(b) /\ \A i \in 1..Len(a) : a[i] = b[i]

StatusSequence ==
    <<"pending", "planning", "scaffolding", "generating", "validating", "completed">>

\* C1: in a run without a fatal abort and without a cancel request the
\* statuses written so far are always an initial part of pending, planning,
\* scaffolding, generating, validating, completed, and once the run has passed
\* phase 5 they are exactly that sequence.
C1_StatusSequence ==
    (cancels = 0 /\ ~fatal) =>
        /\ IsPrefix(statusLog, StatusSequence)
        /\ ppc \in {"ws_ready", "done"} => statusLog = StatusSequence

C1_Witness ==
    /\ ppc = "done" /\ ~fatal /\ cancels = 0
    /\ Len(generatedFiles) = 2
    /\ statusLog = StatusSequence

\* C2: once the session's status is completed or failed, no later write
\* changes it.
C2_TerminalIsFinal ==
    [][TerminalStatus(session.status) => session'.status = session.status]_vars

CallsOn(c) == {i \in 1..Len(calls) : calls[i].cand = c}

\* C3: within one execute call no candidate gets more than retryCount + 1
\* provider calls.
C3_AttemptsBounded ==
    \A i \in 1..Len(calls) : Cardinality(CallsOn(calls[i].cand)) <= retryCount + 1

C3_Witness ==
    /\ retryCount = 2
    /\ \E i \in 1..Len(calls) : Cardinality(CallsOn(calls[i].cand)) = 3

\* the failure's message indicates 429 or throttling
RateLimitClass(e) == e.text \in {"rate limit", "429", "too many requests"}

\* C4: a second call to the same candidate only ever follows a rate-limit
\* failure of that candidate, and after a failure of the primary that is not
\* rate-limit-class the engine is on the fallback (or has given up when the
\* fallback has no key).
C4_NoRetryAfterOtherError ==
    /\ \A i \in 2..Len(calls) :
          calls[i].cand = calls[i - 1].cand =>
              ~calls[i - 1].ok /\ RateLimitClass(calls[i - 1].err.err)
    /\ \A i \in 1..Len(calls) :
          (~calls[i].ok /\ ~RateLimitClass(calls[i].err.err)) =>
              /\ i < Len(calls) => calls[i + 1].cand # calls[i].cand
              /\ (i = Len(calls) /\ calls[i].cand = ModelRouting(task).primary) =>
                    epc = (IF isProviderAvailable(ModelRouting(task).fallback.provider)
                           THEN "fallback" ELSE "thrown")

C4_Witness ==
    /\ Len(calls) = 2
    /\ calls[1].cand = ModelRouting(task).primary
    /\ ~calls[1].ok /\ ~RateLimitClass(calls[1].err.err)
    /\ calls[2].cand = ModelRouting(task).fallback

RateLimitFailure(c) == ~c.ok /\ c.err.err.isError /\ RateLimitClass(c.err.err)

\* C5: while the primary has only failed with rate-limit errors, at most
\* retryCount times, the engine stays on the primary; and when a call to the
\* primary succeeds execute returns the primary's provider and model and the
\* fallback has not been called.
C5_PrimarySucceedsAfterRetries ==
    /\ (/\ calls # <<>>
        /\ Len(calls) <= retryCount
        /\ \A i \in 1..Len(calls) :
              /\ calls[i].cand = ModelRouting(task).primary
              /\ RateLimitFailure(calls[i])) => epc = "primary"
    /\ (/\ calls # <<>>
        /\ calls[Len(calls)].ok
        /\ calls[Len(calls)].cand = ModelRouting(task).primary) =>
            /\ epc = "returned"
            /\ result = ModelRouting(task).primary
            /\ \A i \in 1..Len(calls) : calls[i].cand = ModelRouting(task).primary

C5_Witness ==
    /\ retryCount = 2
    /\ Len(calls) = 3
    /\ RateLimitFailure(calls[1]) /\ calls[1].err.err.text = "429"
    /\ RateLimitFailure(calls[2]) /\ calls[2].err.err.text = "429"
    /\ calls[3].ok
    /\ epc = "returned"
    /\ result = ModelRouting(task).primary

\* C6: when execute fails after at least one provider call, the error it
\* raises is the error of the last provider call.
C6_LastErrorRaised ==
    (epc = "thrown" /\ calls # <<>>) => thrown = calls[Len(calls)].err

\* C7: with a key configuration loadEnv accepts, no execute call fails for
\* want of an available provider: every task's candidate chain is non-empty.
C7_NoPerRequestNoProvider ==
    /\ epc # "idle" => Candidates(task) # <<>>
    /\ ~(epc = "thrown" /\ thrown = NoProvidersError /\ calls = <<>>)

Key(f) == IF f.hasPriority THEN f.priority ELSE f.ndeps

\* C10: the Generate phase attempts the files in non-decreasing order of
\* priority when present, dependency count otherwise.
C10_GeneratedInKeyOrder ==
    \A i, j \in 1..Len(attempted) :
        i < j => Key(attempted[i]) <= Key(attempted[j])

\* the Phase 3 loop has been left
GenerateDone ==
    \/ ppc = "p4_status"
    \/ \E i \in 1..Len(statusLog) : statusLog[i] = "validating"

GeneratedPaths == {generatedFiles[i].path : i \in 1..Len(generatedFiles)}

\* C11: a file spec whose generation or persistence fails does not abort the
\* run: Phase 3 never enters the catch block, after Phase 3 every planned
\* file spec has been attempted, a failed spec's path is not among the
\* generated files, the generated files are as many as the specs that
\* succeeded, and that number is what the session's files_generated holds
\* after each progress write and at completion.
C11_FileFailureIsolated ==
    /\ Len(outcome) = Len(attempted)
    /\ ppc \in {"p3_file", "p3_progress"} => ~fatal
    /\ IsPrefix(attempted, sortedFiles)
    /\ GenerateDone => attempted = sortedFiles
    /\ \A i \in 1..Len(attempted) :
          ~outcome[i] => attempted[i].path \notin GeneratedPaths
    /\ Len(generatedFiles) = Cardinality({i \in 1..Len(outcome) : outcome[i]})
    /\ (ppc # "p3_progress" /\ generatedFiles # <<>>) =>
          session.files_generated = Len(generatedFiles)
    /\ (ppc \in {"ws_ready", "done", "settled"} /\ ~fatal) =>
          session.files_generated = Len(generatedFiles)

C11_Witness ==
    /\ ppc = "done" /\ ~fatal /\ cancels = 0
    /\ outcome = <<FALSE, TRUE>>
    /\ session.status = "completed"
    /\ session.files_planned = 2
    /\ session.files_generated = 1
    /\ GeneratedPaths = {attempted[2].path}

\* architect.createPlan threw: the run is in its catch path and never wrote
\* scaffolding
PlanFailed ==
    /\ fatal
    /\ \A i \in 1..Len(statusLog) : statusLog[i] # "scaffolding"

\* C12: when the Plan phase fails no file spec is attempted, no file is
\* generated, validated or fixed, the file store is left as it was, and once
\* the catch block has written, the session is failed with an error message
\* and a completion timestamp.
C12_PlanFailureAborts ==
    PlanFailed =>
        /\ attempted = <<>>
        /\ generatedFiles = <<>>
        /\ vStats = <<>>
        /\ store = [p \in Paths |-> 0]
        /\ ppc \in {"ws_error", "done", "settled"} =>
              /\ session.status = "failed"
              /\ session.error_message # ""
              /\ statusLog[Len(statusLog)] = "failed"

C12_Witness ==
    /\ PlanFailed /\ ppc = "done" /\ cancels = 0
    /\ statusLog = <<"pending", "planning", "failed">>
    /\ session.status = "failed" /\ session.error_message = "error"
    /\ wsStatus = "error"

\* C13: at most one pipeline run of the workspace is in progress at any
\* time, and only requests that were not answered 409 have a session.
C13_SingleActiveRun ==
    /\ Cardinality(activeRuns) <= 1
    /\ \A r \in Requests : reqPc[r] = "409" => r \notin sessionsOf

\* the step begins the generation of a file spec
StartsNewFile == ppc' = "p3_file" /\ (ppc # "p3_file" \/ fileIdx' # fileIdx)

\* the step opens a phase: its status write, or the suggestion call
StartsNewPhase ==
    \/ ppc \in {"p1_status", "p2_status", "p3_status", "p4_status"} /\ ppc' # ppc
    \/ ppc' = "p5_suggest" /\ ppc # "p5_suggest"

\* C14: once a cancel request has been served, the run begins no further
\* file generation and opens no further phase.
C14_CancelStopsAtBoundary ==
    [][cancels > 0 => ~(StartsNewFile \/ StartsNewPhase)]_vars

\* C15: a session has a completion timestamp exactly when its status is
\* completed or failed.
C15_CompletedAtIffTerminal ==
    session.status # "none" =>
        (session.completed_at <=> TerminalStatus(session.status))

C17_NoDuplicatePaths ==
    \A i, j \in 1..Len(generatedFiles) :
        i # j => generatedFiles[i].path # generatedFiles[j].path

\* two calls of estimateCredits have returned
BothEstimated == Len(estOut) = 2

NotGreater(a, b) ==
    /\ a.estimatedTokens <= b.estimatedTokens
    /\ a.estimatedCredits <= b.estimatedCredits

\* C18: for the same prompt and files counts n1 <= n2, neither the estimated
\* tokens nor the estimated credits for n1 exceed those for n2.
C18_MonotoneInFilesCount ==
    (/\ BothEstimated
     /\ estArgs[1].len = estArgs[2].len
     /\ estArgs[1].n <= estArgs[2].n) => NotGreater(estOut[1], estOut[2])

\* C19: for the same files count and prompt lengths l1 <= l2, neither the
\* estimated tokens nor the estimated credits for l1 exceed those for l2.
C19_MonotoneInPromptLength ==
    (/\ BothEstimated
     /\ estArgs[1].n = estArgs[2].n
     /\ estArgs[1].len <= estArgs[2].len) => NotGreater(estOut[1], estOut[2])

C19_Witness ==
    /\ BothEstimated
    /\ estArgs[1].n = estArgs[2].n
    /\ estArgs[1].len < estArgs[2].len
    /\ estOut[1].complexity = "low" /\ estOut[2].complexity = "medium"
    /\ estOut[1].estimatedCredits < estOut[2].estimatedCredits

\* C20: when the suggestion call fails, the step that catches the failure
\* leaves the generated files and the file store as they are, the suggestion
\* list stays empty, the run does not enter its catch block, and it goes on
\* to write completed.
C20_SuggestFailureNonFatal ==
    /\ [](suggestError =>
            /\ suggestions = <<>>
            /\ ~fatal
            /\ ppc \in {"complete", "ws_ready", "done", "settled"}
            /\ ppc # "complete" =>
                  /\ \E i \in 1..Len(statusLog) : statusLog[i] = "completed"
                  /\ cancels = 0 => session.status = "completed")
    /\ [][(suggestError' /\ ~suggestError) =>
            (generatedFiles' = generatedFiles /\ store' = store)]_vars

C20_Witness ==
    /\ suggestError /\ ppc = "done" /\ cancels = 0
    /\ session.status = "completed"
    /\ session.files_generated = 2
    /\ Len(generatedFiles) = 2
    /\ suggestions = <<>>

\* C21: a stream that ends without error has yielded exactly one chunk with
\* done = true, and that chunk is the last one, whatever the provider and
\* whatever finish reason the provider reported.
C21_DoneMarkerLast ==
    spc = "ended" =>
        /\ chunks # <<>>
        /\ chunks[Len(chunks)].done
        /\ \A i \in 1..(Len(chunks) - 1) : ~chunks[i].done

\* C22: stream asks only the first candidate of the task's chain that has
\* credentials, the one execute would attempt first; when opening or reading
\* the stream fails it makes no second request and throws that failure; it
\* throws the no-providers error exactly when the chain is empty.
C22_StreamFirstCandidateOnly ==
    /\ Len(sOpens) <= 1
    /\ \A i \in 1..Len(sOpens) :
          Candidates(sTask) # <<>> /\ sOpens[i] = Candidates(sTask)[1]
    /\ spc \in {"open", "streaming", "ended"} =>
          Candidates(sTask) # <<>> /\ sCand = Candidates(sTask)[1]
    /\ spc = "thrown" =>
          IF Candidates(sTask) = <<>>
          THEN sThrown = NoProvidersError /\ sOpens = <<>>
          ELSE /\ Len(sOpens) = 1
               /\ sThrown.kind = "call" /\ sThrown.call = 1

C22_Witness ==
    /\ spc = "thrown" /\ sTask = "coding"
    /\ keys = AIProvider
    /\ sOpens = <<ModelRouting("coding").primary>>
    /\ Len(chunks) = 1
    /\ sThrown.kind = "call" /\ isRateLimitError(sThrown.err)

\* C23: once a request has been served, the limiter's table holds no entry
\* whose window has expired.
C23_NoExpiredEntries ==
    [][rlAnswer' # rlAnswer =>
          \A k \in CallerKeys :
              requestCounts'[k].present =>
                  now' - requestCounts'[k].windowStart <= rateLimitWindow]_vars

\* a window of key k is running at time t and has admitted its 30 requests
WindowFull(k, t) ==
    /\ windowH[k].open
    /\ t <= windowH[k].start + rateLimitWindow
    /\ windowH[k].admitted >= maxRequestsPerWindow

\* C30: in every window of every key at most 30 requests are admitted and
\* the table's counter is the number admitted, so no increment is lost; a
\* request is answered 429 exactly when its key's window is running and
\* full, and such a request leaves the table as it was.
C30_WindowAdmitsAtMostLimit ==
    /\ [](\A k \in CallerKeys :
            /\ windowH[k].admitted <= maxRequestsPerWindow
            /\ windowH[k].open = requestCounts[k].present
            /\ requestCounts[k].present =>
                  /\ requestCounts[k].count = windowH[k].admitted
                  /\ requestCounts[k].windowStart = windowH[k].start)
    /\ [][rlAnswer' # rlAnswer =>
            IF WindowFull(rlAnswer'.key, now)
            THEN rlAnswer'.status = "429" /\ requestCounts' = requestCounts
            ELSE rlAnswer'.status = "next"]_vars

\* 30 requests admitted at time 0, a further one rejected exactly 60 s later
\* while the other key is still free
C30_Witness ==
    /\ requestCounts["user-1"] = Entry(maxRequestsPerWindow, 0)
    /\ rlAnswer = [key |-> "user-1", status |-> "429", at |-> rateLimitWindow]
    /\ requestCounts["anonymous"].present
    /\ requestCounts["anonymous"].count < maxRequestsPerWindow

\* C24: a request starts a run only if the user's balance, remaining daily
\* free credits and bonus credits together cover the estimate for the
\* prompt, a user without a credit record included; a request answered 402
\* has created no session.
C24_OnlyCoveredRequestsPass ==
    /\ gpc = "200" =>
          totalCredits(gCredits) >= estimateCredits(gPrompt, 0).estimatedCredits
    /\ gpc = "402" => gSessions = 0

RunEnded == ppc \in {"done", "settled"} /\ TerminalStatus(session.status)

\* C25: once a generation or refinement run has ended in completed or
\* failed, the workspace status is no longer generating.
C25_WorkspaceReleased ==
    RunEnded => wsStatus # "generating"

GenerationRun == \E i \in 1..Len(statusLog) : statusLog[i] = "planning"

\* C26: when a generation run has ended, tokens_used of the session is the
\* sum of the token counts of all answers the engine returned during the run,
\* those added to totalTokens and those dropped before being added.
C26_TokensUsedIsSumOfUsage ==
    (RunEnded /\ GenerationRun) =>
        /\ session.tokens_used = totalTokens + lostTokens
        /\ totalTokens = session.tokens_used

\* C27: a refinement run whose analysis was obtained, so that anything that
\* fails afterwards is one file's CODING call or persistence, ends completed
\* with every file of both lists processed.
C27_RefineFileFailureIsolated ==
    (RunEnded /\ analysis # NoAnalysis) =>
        /\ ~fatal
        /\ session.status = "completed"
        /\ fileIdx = Len(analysis.newFiles) + 1

\* C28: after the Validate/Repair phase every generated file with
\* validated = true has no issues recorded, its errors being absent or empty.
C28_ValidatedHasNoIssues ==
    (ppc \in {"p5_suggest", "complete", "ws_ready", "done", "settled"} /\ ~fatal) =>
        \A i \in 1..Len(generatedFiles) :
            generatedFiles[i].validated =>
                (~generatedFiles[i].hasErrors \/ generatedFiles[i].errors = <<>>)

\* C29: when a generation run has ended completed, the file store holds,
\* under the path of every generated file, that file's content.
C29_StoreHoldsGeneratedContent ==
    (RunEnded /\ GenerationRun /\ ~fatal /\ session.status = "completed") =>
        \A i \in 1..Len(generatedFiles) :
            store[generatedFiles[i].path] = generatedFiles[i].content

====
